---- MODULE Spec2Model ----
(***************************************************************************)
(* Model of the Sentinel polling run of backend/sentinel_eye.py: per-node  *)
(* cursor tracking (parse_html), batch aggregation and spike analysis      *)
(* (detect_anomalies), baseline loading (fetch_remote_baselines), alert    *)
(* dispatch (send_alert) and the cursor write (save_state).                *)
(*                                                                         *)
(* Text is a sequence of one-character strings.  Persian letters are       *)
(* written in a Latin transliteration, one character per letter:           *)
(*   "Y" is ARABIC YEH  (U+064A), "y" is FARSI YEH   (U+06CC),             *)
(*   "K" is ARABIC KAF  (U+0643), "k" is KEHEH       (U+06A9),             *)
(*   "0".."9" are the Persian digits, "d","r" are DAL and REH, and so on.  *)
(* Rates are integers in units of 1/RateScale occurrences per hour.        *)
(***************************************************************************)
EXTENDS Integers, Sequences, FiniteSets, TLC

VARIABLES
    config,         \* sentinel_config.json: nodes and the three pattern lists
    remote,         \* what the remote baseline URL answers
    localFile,      \* content of backend/trend_baselines.json
    disk,           \* content of backend/sentinel_state.json (node -> cursor)
    pc,             \* position of the process: off, scrape, detect, send, save
    idx,            \* index in config.nodes of the next node to scrape
    state,          \* self.state['last_seen'] of the running process
    baselines,      \* self.baselines
    seen_messages,  \* self.seen_messages
    all_new_msgs,   \* run(): all_new_msgs
    counts,         \* detect_anomalies(): counts, an insertion-ordered dict
    alerts,         \* detect_anomalies(): alerts
    sent,           \* payloads the notification sink accepted
    fetched,        \* what the feed answered for each node scraped so far
    runs,           \* number of processes started
    disk_at_start,  \* the state file as the running process found it
    prev            \* record of the previous process, kept for comparison

vars == <<config, remote, localFile, disk, pc, idx, state, baselines,
          seen_messages, all_new_msgs, counts, alerts, sent, fetched, runs,
          disk_at_start, prev>>

----------------------------------------------------------------------------
(* Bounds and program constants *)

MaxRuns == 2

MaxCount == 6

MIN_COUNT == 4

MULTIPLIER == 10

RateScale == 10000

DEFAULT_RATE == 1000

current_month_idx == 10

MAX_LINKS == 3

----------------------------------------------------------------------------
(* Text helpers *)

NonWordChars == {" ", "!", ".", "~"}

\* \w of a Python 3 str pattern: letters and digits of any script
IsWord(c) == c \notin NonWordChars

Digits == {"0", "1", "2", "3", "4", "5", "6", "7", "8", "9"}

Contains(text, sub) ==
    \E s \in 0..(Len(text) - Len(sub)) : SubSeq(text, s + 1, s + Len(sub)) = sub

\* text.replace(ARABIC YEH, FARSI YEH).replace(ARABIC KAF, KEHEH)
normalize(text) ==
    [i \in DOMAIN text |->
        IF text[i] = "Y" THEN "y" ELSE IF text[i] = "K" THEN "k" ELSE text[i]]

RECURSIVE lstrip(_)
lstrip(text) ==
    IF text # <<>> /\ Head(text) = " " THEN lstrip(Tail(text)) ELSE text

RECURSIVE rstrip(_)
rstrip(text) ==
    IF text # <<>> /\ text[Len(text)] = " "
    THEN rstrip(SubSeq(text, 1, Len(text) - 1)) ELSE text

\* str.strip()
strip(text) == rstrip(lstrip(text))

\* \b at offset p (between text[p] and text[p+1])
BoundaryAt(text, p) ==
    LET before == p >= 1 /\ IsWord(text[p])
        after  == p < Len(text) /\ IsWord(text[p + 1])
    IN  before # after

\* re.search(r'\b' + re.escape(pattern) + r'\b', text); re.escape makes every
\* character of the term literal, so the except branch is not taken for a str
match_pattern(text, pattern) ==
    \E s \in 0..(Len(text) - Len(pattern)) :
        /\ SubSeq(text, s + 1, s + Len(pattern)) = pattern
        /\ BoundaryAt(text, s)
        /\ BoundaryAt(text, s + Len(pattern))

months_fa ==
    << <<"f","r","w","r","d","y","n">>,      \* Farvardin
       <<"A","r","d","y","b","h","S","t">>,  \* Ordibehesht
       <<"x","r","d","A","d">>,              \* Khordad
       <<"t","y","r">>,                      \* Tir
       <<"m","r","d","A","d">>,              \* Mordad
       <<"S","h","r","y","w","r">>,          \* Shahrivar
       <<"m","h","r">>,                      \* Mehr
       <<"a","b","A","n">>,                  \* Aban
       <<"a","z","r">>,                      \* Azar
       <<"d","y">>,                          \* Dey
       <<"b","h","m","n">>,                  \* Bahman
       <<"A","s","f","n","d">> >>            \* Esfand

\* re.search(r'(139\d|140[0-3])', text) on Persian digits
OldYear(text) ==
    \E s \in 0..(Len(text) - 4) :
        \/ /\ SubSeq(text, s + 1, s + 3) = <<"1", "3", "9">>
           /\ text[s + 4] \in Digits
        \/ /\ SubSeq(text, s + 1, s + 3) = <<"1", "4", "0">>
           /\ text[s + 4] \in {"0", "1", "2", "3"}

is_old_news(text) ==
    \/ OldYear(text)
    \/ \E i \in 1..Len(months_fa) :
          Contains(text, months_fa[i]) /\ (i - 1) < current_month_idx

----------------------------------------------------------------------------
(* Vocabulary, post texts and feed pages the runs draw from *)

sp == <<" ">>

jng == <<"j", "n", "g">>

syl == <<"s", "y", "l">>

qm == <<"q", "m">>

ry == <<"r", "y">>

qTy == <<"q", "T", "y">>

Nodes == <<"n1", "n2">>

ConfigPlain ==
    [nodes |-> Nodes,
     patterns |-> [incidents |-> <<jng, syl>>, locations |-> <<qm, ry>>,
                   status |-> <<qTy>>]]

\* a configuration file whose lists repeat a term
ConfigRepeated ==
    [nodes |-> Nodes,
     patterns |-> [incidents |-> <<jng, jng>>, locations |-> <<qm>>,
                   status |-> <<qTy, qTy>>]]

Configs == {ConfigPlain, ConfigRepeated}

TxtWarQom == jng \o sp \o qm

TxtBoth == jng \o sp \o syl \o sp \o qm \o sp \o ry

TxtQomWar == qm \o sp \o jng

TxtOutage == qTy \o sp \o jng \o sp \o qm

\* written with ARABIC YEH
TxtFloodArabic == <<"s", "Y", "l">> \o sp \o <<"r", "Y">>

\* the same text in canonical letters, padded with whitespace
TxtFloodPadded == sp \o syl \o sp \o ry \o sp

\* jng only inside a longer word
TxtSubstring == <<"j", "n", "g", "y">> \o sp \o qm

\* names the month Dey
TxtStale == jng \o sp \o qm \o sp \o <<"d", "y">>

\* one .tgme_widget_message_wrap: has_id is FALSE when the wrap has no
\* .tgme_widget_message, no data-post, or a data-post that is no integer;
\* has_text is FALSE when it has no .tgme_widget_message_text
Wrap(id, text) == [has_id |-> TRUE, id |-> id, has_text |-> TRUE, text |-> text]

WrapNoText(id) == [has_id |-> TRUE, id |-> id, has_text |-> FALSE, text |-> <<>>]

WrapNoId(text) == [has_id |-> FALSE, id |-> 0, has_text |-> TRUE, text |-> text]

\* four distinct matching posts, ids out of order
PageBurst ==
    << Wrap(2, TxtWarQom), Wrap(1, TxtBoth), Wrap(4, TxtQomWar), Wrap(3, TxtOutage) >>

\* duplicates after normalization, a stale post, a post without text that
\* carries the largest id, a wrap without id
PageMixed ==
    << Wrap(6, TxtFloodArabic), Wrap(5, TxtFloodPadded), WrapNoId(TxtWarQom),
       Wrap(4, TxtStale), Wrap(3, TxtSubstring), WrapNoText(7) >>

\* old posts only
PageOld == << Wrap(1, TxtBoth), Wrap(2, TxtWarQom) >>

Unreachable == [kind |-> "exception", status |-> 0, page |-> <<>>]

NotFound == [kind |-> "response", status |-> 404, page |-> <<>>]

Ok(page) == [kind |-> "response", status |-> 200, page |-> page]

FetchResults == {Unreachable, NotFound, Ok(PageBurst), Ok(PageMixed), Ok(PageOld)}

----------------------------------------------------------------------------
(* Cursor store: parse_html and scrape_node *)

\* self.state.get('last_seen', {}).get(node, 0)
Cursor(st, node) == IF node \in DOMAIN st THEN st[node] ELSE 0

\* self.state['last_seen'][node] = max_id
SetCursor(st, node, max_id) ==
    [n \in (DOMAIN st) \cup {node} |-> IF n = node THEN max_id ELSE st[n]]

initial_max_zero(last_id) == 0

\* max_id = last_id
initial_max(last_id) == last_id

advance_max_last(msg_id, max_id) == msg_id

\* if msg_id > max_id: max_id = msg_id
advance_max(msg_id, max_id) == IF msg_id > max_id THEN msg_id ELSE max_id

is_old_post_strict(msg_id, last_id) == msg_id < last_id

\* if msg_id <= last_id: continue
is_old_post(msg_id, last_id) == msg_id <= last_id

RECURSIVE parse_wraps(_, _, _, _, _)
parse_wraps(wraps, node, last_id, max_id, messages) ==
    IF wraps = <<>> THEN [max_id |-> max_id, messages |-> messages]
    ELSE LET wrap == Head(wraps)
             rest == Tail(wraps)
         IN  IF ~wrap.has_id
             THEN parse_wraps(rest, node, last_id, max_id, messages)
             ELSE LET new_max == advance_max(wrap.id, max_id)
                  IN  IF is_old_post(wrap.id, last_id) \/ ~wrap.has_text
                      THEN parse_wraps(rest, node, last_id, new_max, messages)
                      ELSE parse_wraps(rest, node, last_id, new_max,
                               Append(messages,
                                   [id   |-> wrap.id,
                                    node |-> node,
                                    text |-> normalize(strip(wrap.text)),
                                    link |-> <<node, wrap.id>>]))

\* returns the new messages and the state with the node's cursor set
parse_html(page, node, st) ==
    LET last_id == Cursor(st, node)
        r == parse_wraps(page, node, last_id, initial_max(last_id), <<>>)
    IN  [messages |-> r.messages, state |-> SetCursor(st, node, r.max_id)]

scrape_node(result, node, st) ==
    IF result.kind = "exception" \/ result.status # 200
    THEN [messages |-> <<>>, state |-> st]
    ELSE parse_html(result.page, node, st)

state_file_written_through(file, st) == st

\* scrape_node and parse_html only assign self.state; the state file is
\* written by save_state alone
state_file_after_scrape(file, st) == file

\* json.dump(self.state, f)
save_state(st) == st

----------------------------------------------------------------------------
(* Baseline provider: load_json and fetch_remote_baselines *)

EmptyTable == <<>>

\* a JSON document: an object (with or without the key 'baselines') or a list
JsonObject(table) == [json |-> "object", has_baselines |-> TRUE, table |-> table]

JsonEmptyObject == [json |-> "object", has_baselines |-> FALSE, table |-> EmptyTable]

JsonList == [json |-> "list", has_baselines |-> FALSE, table |-> EmptyTable]

JsonInvalid == [json |-> "invalid", has_baselines |-> FALSE, table |-> EmptyTable]

\* a file: absent, or holding a document
FileMissing == [exists |-> FALSE, doc |-> JsonInvalid]

File(doc) == [exists |-> TRUE, doc |-> doc]

\* what the remote URL does: the request raises, or answers status and body
RemoteRaises == [kind |-> "exception", status |-> 0, doc |-> JsonInvalid]

RemoteAnswer(status, doc) == [kind |-> "response", status |-> status, doc |-> doc]

\* {} when the file is absent or does not parse
load_json(file) ==
    IF file.exists /\ file.doc.json # "invalid" THEN file.doc ELSE JsonEmptyObject

\* d.get('baselines', {}): raises AttributeError when d is a list
get_baselines(doc) ==
    IF doc.json = "list" THEN [raised |-> TRUE, table |-> EmptyTable]
    ELSE [raised |-> FALSE,
          table |-> IF doc.has_baselines THEN doc.table ELSE EmptyTable]

fetch_remote_baselines(rem, file) ==
    LET fallback == get_baselines(load_json(file))
    IN  IF rem.kind = "exception" THEN fallback
        ELSE IF rem.status # 200 THEN fallback
        ELSE IF rem.doc.json = "invalid" THEN fallback
        ELSE IF get_baselines(rem.doc).raised THEN fallback
        ELSE get_baselines(rem.doc)

----------------------------------------------------------------------------
(* Batch aggregation and spike analysis: detect_anomalies *)

\* f"{inc} dr {loc}"
composite(inc, loc) == inc \o <<" ", "d", "r", " ">> \o loc

\* [t for t in terms if self.match_pattern(text, t)]
found(terms, text) == SelectSeq(terms, LAMBDA t : match_pattern(text, t))

RECURSIVE composites_of_loc(_, _)
composites_of_loc(loc, found_incidents) ==
    IF found_incidents = <<>> THEN <<>>
    ELSE <<composite(Head(found_incidents), loc)>>
         \o composites_of_loc(loc, Tail(found_incidents))

RECURSIVE composite_keys_paired(_, _)
composite_keys_paired(found_locations, found_incidents) ==
    IF found_locations = <<>> \/ found_incidents = <<>> THEN <<>>
    ELSE <<composite(Head(found_incidents), Head(found_locations))>>
         \o composite_keys_paired(Tail(found_locations), Tail(found_incidents))

\* for loc in found_locations: for inc in found_incidents: the keys bumped
RECURSIVE composite_keys(_, _)
composite_keys(found_locations, found_incidents) ==
    IF found_locations = <<>> THEN <<>>
    ELSE composites_of_loc(Head(found_locations), found_incidents)
         \o composite_keys(Tail(found_locations), found_incidents)

\* the keys one message bumps, in the order the loops bump them
post_keys(text, patterns) ==
    composite_keys(found(patterns.locations, text), found(patterns.incidents, text))
    \o found(patterns.status, text)

\* counts[key] = counts.get(key, 0) + 1 on an insertion-ordered dict
bump_dict(cnts, key) ==
    IF \E i \in 1..Len(cnts) : cnts[i].pattern = key
    THEN [i \in 1..Len(cnts) |->
            IF cnts[i].pattern = key
            THEN [pattern |-> key, count |-> cnts[i].count + 1]
            ELSE cnts[i]]
    ELSE Append(cnts, [pattern |-> key, count |-> 1])

\* bump_dict on the value of cnts, computed once
bump(cnts, key) == CHOOSE after \in { bump_dict(c, key) : c \in {cnts} } : TRUE

RECURSIVE bump_all(_, _)
bump_all(cnts, keys) ==
    IF keys = <<>> THEN cnts ELSE bump_all(bump(cnts, Head(keys)), Tail(keys))

already_seen_never(text, seen) == FALSE

\* if text in self.seen_messages: continue
already_seen(text, seen) == text \in seen

\* one iteration of the loop over messages
aggregate_one(text, patterns, seen, cnts) ==
    IF already_seen(text, seen) THEN [seen |-> seen, counts |-> cnts]
    ELSE IF is_old_news(text) THEN [seen |-> seen \cup {text}, counts |-> cnts]
    ELSE [seen |-> seen \cup {text},
          counts |-> bump_all(cnts, post_keys(text, patterns))]

\* the loop over messages: [seen, counts] after the batch
RECURSIVE aggregate(_, _, _, _)
aggregate(messages, patterns, seen, cnts) ==
    IF messages = <<>> THEN [seen |-> seen, counts |-> cnts]
    ELSE CHOOSE after \in
            { aggregate(Tail(messages), patterns, one.seen, one.counts) :
                one \in { aggregate_one(text, patterns, s, c) :
                            text \in {Head(messages).text}, s \in {seen}, c \in {cnts} } } :
            TRUE

\* self.baselines.get(pat, 0.1)
normal_rate(table, pat) == IF pat \in DOMAIN table THEN table[pat] ELSE DEFAULT_RATE

is_spike_loose(count, rate) == count * RateScale > rate * MULTIPLIER

\* not (count < 4) and count > normal_rate * 10
is_spike(count, rate) ==
    ~(count < MIN_COUNT) /\ count * RateScale > rate * MULTIPLIER

\* for pat, count in counts.items(): the alerts, in dict order
RECURSIVE analyze_spikes(_, _)
analyze_spikes(cnts, table) ==
    IF cnts = <<>> THEN <<>>
    ELSE LET pat == Head(cnts).pattern
             count == Head(cnts).count
             rate == normal_rate(table, pat)
         IN  (IF is_spike(count, rate)
              THEN << [pattern |-> pat, count |-> count, baseline |-> rate] >>
              ELSE <<>>)
             \o analyze_spikes(Tail(cnts), table)

detect_anomalies(messages, patterns, seen, table) ==
    CHOOSE result \in
        { [seen |-> agg.seen, counts |-> agg.counts,
           alerts |-> analyze_spikes(agg.counts, table)] :
            agg \in {aggregate(messages, patterns, seen, <<>>)} } : TRUE

----------------------------------------------------------------------------
(* Alert payloads: send_alert *)

sep_dr == <<" ", "d", "r", " ">>

\* pat.split(" dr ")
RECURSIVE split(_, _)
split(text, sep) ==
    IF ~Contains(text, sep) THEN <<text>>
    ELSE LET s == CHOOSE k \in 0..(Len(text) - Len(sep)) :
                    /\ SubSeq(text, k + 1, k + Len(sep)) = sep
                    /\ \A j \in 0..(k - 1) : SubSeq(text, j + 1, j + Len(sep)) # sep
         IN  <<SubSeq(text, 1, s)>>
             \o split(SubSeq(text, s + Len(sep) + 1, Len(text)), sep)

\* the links of the first MAX_LINKS messages matching every keyword
RECURSIVE example_links(_, _, _)
example_links(messages, keywords, links) ==
    IF messages = <<>> \/ Len(links) >= MAX_LINKS THEN links
    ELSE LET m == Head(messages)
         IN  IF \A i \in 1..Len(keywords) : match_pattern(m.text, keywords[i])
             THEN example_links(Tail(messages), keywords, Append(links, m.link))
             ELSE example_links(Tail(messages), keywords, links)

payload(alert, messages) ==
    [pattern  |-> alert.pattern,
     count    |-> alert.count,
     baseline |-> alert.baseline,
     links    |-> example_links(messages, split(alert.pattern, sep_dr), <<>>)]

\* the payloads delivered: none without BOT_TOKEN and CHAT_ID, and none for an
\* alert whose requests.post raises
send_alert(alert_list, messages, configured, failing) ==
    IF ~configured THEN <<>>
    ELSE LET RECURSIVE deliver(_)
             deliver(i) ==
                 IF i > Len(alert_list) THEN <<>>
                 ELSE (IF i \in failing THEN <<>>
                       ELSE <<payload(alert_list[i], messages)>>)
                      \o deliver(i + 1)
         IN  deliver(1)

----------------------------------------------------------------------------
(* Inputs of the specifications *)

PatWarQom == composite(jng, qm)

SpikePatterns == {PatWarQom, qTy}

\* 0, 0.1, 0.4, 0.5 and 1.0 occurrences per hour
SpikeRates == {0, DEFAULT_RATE, 4 * DEFAULT_RATE, 5 * DEFAULT_RATE, RateScale}

\* baseline tables: pattern -> rate on any subset of the patterns
RateTables ==
    UNION { [D -> SpikeRates] : D \in SUBSET SpikePatterns }

\* counts dicts: every key at most once, counts 1..MaxCount
CountTables ==
    {<<>>}
    \cup { << [pattern |-> p, count |-> c] >> : p \in SpikePatterns, c \in 1..MaxCount }
    \cup { << [pattern |-> p, count |-> c], [pattern |-> q, count |-> d] >> :
             <<p, q>> \in {<<PatWarQom, qTy>>, <<qTy, PatWarQom>>},
             <<c, d>> \in (1..MaxCount) \X (1..MaxCount) }

Remotes ==
    {RemoteRaises, RemoteAnswer(404, JsonEmptyObject), RemoteAnswer(200, JsonInvalid),
     RemoteAnswer(200, JsonList), RemoteAnswer(200, JsonEmptyObject)}
    \cup { RemoteAnswer(200, JsonObject(t)) : t \in RateTables }

\* the local file is absent, truncated, or an object as fetch_brain.py writes it
LocalFiles ==
    {FileMissing, File(JsonInvalid), File(JsonEmptyObject)}
    \cup { File(JsonObject(t)) : t \in RateTables }

\* the baseline environments of the polling runs
RunRemotes == {RemoteRaises, RemoteAnswer(200, JsonObject(PatWarQom :> 5 * DEFAULT_RATE))}

RunLocalFiles == {FileMissing}

NoPrev ==
    [outcome |-> "none", fetched |-> <<>>, msgs |-> <<>>, counts |-> <<>>,
     alerts |-> <<>>, sent |-> <<>>, baselines |-> EmptyTable, state |-> <<>>,
     disk_before |-> <<>>]

\* what is recorded of a process when it ends
Snapshot(outcome) ==
    [outcome |-> outcome, fetched |-> fetched, msgs |-> all_new_msgs,
     counts |-> counts, alerts |-> alerts, sent |-> sent, baselines |-> baselines,
     state |-> state, disk_before |-> disk_at_start]

----------------------------------------------------------------------------
(* The polling process *)

Init ==
    /\ config \in Configs
    /\ remote \in RunRemotes
    /\ localFile \in RunLocalFiles
    /\ disk = <<>>
    /\ pc = "off"
    /\ idx = 0
    /\ state = <<>>
    /\ baselines = EmptyTable
    /\ seen_messages = {}
    /\ all_new_msgs = <<>>
    /\ counts = <<>>
    /\ alerts = <<>>
    /\ sent = <<>>
    /\ fetched = <<>>
    /\ runs = 0
    /\ disk_at_start = <<>>
    /\ prev = NoPrev

\* the memory of a process that has ended
ProcessGone ==
    /\ pc' = "off"
    /\ idx' = 0
    /\ state' = <<>>
    /\ baselines' = EmptyTable
    /\ seen_messages' = {}
    /\ all_new_msgs' = <<>>
    /\ counts' = <<>>
    /\ alerts' = <<>>
    /\ sent' = <<>>
    /\ fetched' = <<>>
    /\ disk_at_start' = <<>>

\* Sentinel(): __init__ loads config, state and baselines; run() starts
Construct ==
    /\ pc = "off"
    /\ prev.outcome # "init_raised"
    /\ runs < MaxRuns
    /\ runs' = runs + 1
    /\ LET b == fetch_remote_baselines(remote, localFile)
       IN  IF b.raised
           THEN /\ ProcessGone
                /\ prev' = Snapshot("init_raised")
           ELSE /\ state' = disk
                /\ baselines' = b.table
                /\ seen_messages' = {}
                /\ all_new_msgs' = <<>>
                /\ counts' = <<>>
                /\ alerts' = <<>>
                /\ sent' = <<>>
                /\ fetched' = <<>>
                /\ idx' = 1
                /\ disk_at_start' = disk
                /\ pc' = IF Len(config.nodes) = 0 THEN "detect" ELSE "scrape"
                /\ prev' = prev
    /\ UNCHANGED <<config, remote, localFile, disk>>

\* one iteration of run()'s loop: msgs = self.scrape_node(node); extend
ScrapeNode ==
    /\ pc = "scrape"
    /\ \E result \in FetchResults :
          LET node == config.nodes[idx]
              r == scrape_node(result, node, state)
          IN  /\ state' = r.state
              /\ all_new_msgs' = all_new_msgs \o r.messages
              /\ fetched' = Append(fetched, result)
              /\ disk' = state_file_after_scrape(disk, r.state)
    /\ idx' = idx + 1
    /\ pc' = IF idx = Len(config.nodes) THEN "detect" ELSE "scrape"
    /\ UNCHANGED <<config, remote, localFile, baselines, seen_messages, counts,
                   alerts, sent, runs, disk_at_start, prev>>

\* if all_new_msgs: alerts = self.detect_anomalies(all_new_msgs)
Detect ==
    /\ pc = "detect"
    /\ \E d \in { IF all_new_msgs # <<>>
                   THEN detect_anomalies(all_new_msgs, config.patterns,
                                         seen_messages, baselines)
                   ELSE [seen |-> seen_messages, counts |-> counts,
                         alerts |-> alerts] } :
          /\ seen_messages' = d.seen
          /\ counts' = d.counts
          /\ alerts' = d.alerts
          /\ pc' = IF d.alerts # <<>> THEN "send" ELSE "save"
    /\ UNCHANGED <<config, remote, localFile, disk, idx, state, baselines,
                   all_new_msgs, sent, fetched, runs, disk_at_start, prev>>

\* if alerts: self.send_alert(alerts, all_new_msgs); a failed post is logged
SendAlert ==
    /\ pc = "send"
    /\ \E configured \in BOOLEAN, failing \in SUBSET (1..Len(alerts)) :
          sent' = send_alert(alerts, all_new_msgs, configured, failing)
    /\ pc' = "save"
    /\ UNCHANGED <<config, remote, localFile, disk, idx, state, baselines,
                   seen_messages, all_new_msgs, counts, alerts, fetched, runs,
                   disk_at_start, prev>>

\* self.save_state(), the last statement of run(); the process exits
SaveState ==
    /\ pc = "save"
    /\ disk' = save_state(state)
    /\ prev' = Snapshot("completed")
    /\ ProcessGone
    /\ UNCHANGED <<config, remote, localFile, runs>>

\* the process is stopped between two sources (during the polite delay)
AbortBetweenSources ==
    /\ pc = "scrape"
    /\ idx > 1
    /\ prev' = Snapshot("aborted")
    /\ ProcessGone
    /\ UNCHANGED <<config, remote, localFile, disk, runs>>

\* the process is stopped after detection and before the cursor write
TerminateBeforeWrite ==
    /\ pc \in {"send", "save"}
    /\ prev' = Snapshot("terminated")
    /\ ProcessGone
    /\ UNCHANGED <<config, remote, localFile, disk, runs>>

Next ==
    \/ Construct
    \/ ScrapeNode
    \/ Detect
    \/ SendAlert
    \/ SaveState
    \/ AbortBetweenSources
    \/ TerminateBeforeWrite

Spec == Init /\ [][Next]_vars

\* the steps of a process that nothing stops from outside; run() is
\* sequential, so a started process keeps taking its next step
RunStep == ScrapeNode \/ Detect \/ SendAlert \/ SaveState

NextRun == Construct \/ RunStep

SpecRun == Init /\ [][NextRun]_vars /\ WF_vars(RunStep)

----------------------------------------------------------------------------
(* Baseline loading alone, over every remote answer and local file *)

InitBaseline ==
    /\ config = ConfigPlain
    /\ remote \in Remotes
    /\ localFile \in LocalFiles
    /\ disk = <<>>
    /\ pc = "off"
    /\ idx = 0
    /\ state = <<>>
    /\ baselines = EmptyTable
    /\ seen_messages = {}
    /\ all_new_msgs = <<>>
    /\ counts = <<>>
    /\ alerts = <<>>
    /\ sent = <<>>
    /\ fetched = <<>>
    /\ runs = 0
    /\ disk_at_start = <<>>
    /\ prev = NoPrev

NextBaseline == Construct

SpecBaseline == InitBaseline /\ [][NextBaseline]_vars

----------------------------------------------------------------------------
(* Spike analysis alone, over counts and baseline tables *)

InitSpike ==
    /\ config = ConfigPlain
    /\ remote = RemoteRaises
    /\ localFile = FileMissing
    /\ disk = <<>>
    /\ pc = "analyze"
    /\ idx = 0
    /\ state = <<>>
    /\ baselines \in RateTables
    /\ seen_messages = {}
    /\ all_new_msgs = <<>>
    /\ counts \in CountTables
    /\ alerts = <<>>
    /\ sent = <<>>
    /\ fetched = <<>>
    /\ runs = 0
    /\ disk_at_start = <<>>
    /\ prev = NoPrev

\* the "Analyze Spikes" loop of detect_anomalies
AnalyzeSpikes ==
    /\ pc = "analyze"
    /\ alerts' = analyze_spikes(counts, baselines)
    /\ pc' = "analyzed"
    /\ UNCHANGED <<config, remote, localFile, disk, idx, state, baselines,
                   seen_messages, all_new_msgs, counts, sent, fetched, runs,
                   disk_at_start, prev>>

NextSpike == AnalyzeSpikes

SpecSpike == InitSpike /\ [][NextSpike]_vars

----------------------------------------------------------------------------
(* Vocabulary of the properties *)

SetMax(S) == CHOOSE m \in S : \A x \in S : x <= m

Range(seq) == { seq[i] : i \in 1..Len(seq) }

NodeIdx == 1..Len(config.nodes)

FetchOk(r) == r.kind = "response" /\ r.status = 200

\* every integer id a page shows, whatever else the wrap holds
ObservedIds(page) == { page[i].id : i \in { j \in 1..Len(page) : page[j].has_id } }

\* detection has run (or was skipped for an empty batch) in this process
Detected == pc \in {"send", "save"}

\* the state that Detect leaves
JustDetected == pc = "send" \/ (pc = "save" /\ alerts = <<>>)

\* the messages that survive de-duplication and the stale filter
Surviving(messages) ==
    { i \in 1..Len(messages) :
        /\ \A j \in 1..(i - 1) : messages[j].text # messages[i].text
        /\ ~is_old_news(messages[i].text) }

MatchedSet(terms, text) ==
    { terms[k] : k \in { j \in 1..Len(terms) : match_pattern(text, terms[j]) } }

\* incidents x locations matched in one text, as composite strings
CrossKeys(text) ==
    { composite(a, b) : a \in MatchedSet(config.patterns.incidents, text),
                        b \in MatchedSet(config.patterns.locations, text) }

StatusKeys(text) == MatchedSet(config.patterns.status, text)

CountOf(cnts, p) ==
    IF \E k \in 1..Len(cnts) : cnts[k].pattern = p
    THEN cnts[CHOOSE k \in 1..Len(cnts) : cnts[k].pattern = p].count
    ELSE 0

RECURSIVE DropDuplicates(_, _)
DropDuplicates(messages, texts) ==
    IF messages = <<>> THEN <<>>
    ELSE IF Head(messages).text \in texts
         THEN DropDuplicates(Tail(messages), texts)
         ELSE <<Head(messages)>>
              \o DropDuplicates(Tail(messages), texts \cup {Head(messages).text})

----------------------------------------------------------------------------
(* Properties *)

\* C1: in every step, for every node, the cursor in the state file does not
\* decrease, the cursor in the memory of a running process does not decrease,
\* and the cursor in memory is at least the cursor in the file; this holds
\* whatever the feed answers (failure, any order of ids, only old ids).
C1_CursorNeverDecreases ==
    [][\A i \in NodeIdx :
          LET n == config.nodes[i]
          IN  /\ Cursor(disk', n) >= Cursor(disk, n)
              /\ (pc # "off" /\ pc' # "off") => Cursor(state', n) >= Cursor(state, n)
              /\ pc' # "off" => Cursor(state', n) >= Cursor(disk', n)]_vars

\* a second run has completed in which n1 showed only ids below its cursor
\* and the fetch of n2 failed, and both cursors were kept
C1_Witness ==
    /\ pc = "off"
    /\ runs = 2
    /\ prev.outcome = "completed"
    /\ prev.fetched = <<Ok(PageOld), Unreachable>>
    /\ Cursor(prev.disk_before, "n1") = 4
    /\ Cursor(disk, "n1") = 4
    /\ Cursor(disk, "n2") = 7

\* C2: after a run was aborted between two sources, the state file holds the
\* advanced cursor of every source processed before the abort, and the prior
\* cursor of every source not yet processed.
C2_AbortKeepsAdvancedCursors ==
    prev.outcome = "aborted" =>
        \A i \in NodeIdx :
            LET n == config.nodes[i]
            IN  IF i <= Len(prev.fetched)
                THEN Cursor(disk, n) = Cursor(prev.state, n)
                ELSE Cursor(disk, n) = Cursor(prev.disk_before, n)

\* every process that has ended has written the cursors, each the maximum of
\* the prior cursor and the ids observed, or the prior cursor after a failure
WrittenCursorIsMaxObserved ==
    (pc = "off" /\ runs > 0) =>
        /\ prev.outcome = "completed"
        /\ Len(prev.fetched) = Len(config.nodes)
        /\ \A i \in NodeIdx :
              LET n == config.nodes[i]
                  r == prev.fetched[i]
                  before == Cursor(prev.disk_before, n)
              IN  IF FetchOk(r)
                  THEN Cursor(disk, n) = SetMax({before} \cup ObservedIds(r.page))
                  ELSE Cursor(disk, n) = before

\* C3: a process that is not stopped from outside reaches the cursor write
\* whatever feed failures and dispatch failures occur, and the cursor written
\* for a node is the maximum of its prior cursor and every id its page showed
\* when the fetch succeeded, and its prior cursor when the fetch failed.
C3_RunReachesWriteOfMaxObserved ==
    /\ []WrittenCursorIsMaxObserved
    /\ (pc # "off") ~> (pc = "off" /\ prev.outcome = "completed")

\* a completed run in which one fetch failed, every dispatch failed, and the
\* other node's cursor advanced to the largest id of its out-of-order page
C3_Witness ==
    /\ pc = "off"
    /\ prev.outcome = "completed"
    /\ prev.fetched = <<Ok(PageBurst), NotFound>>
    /\ prev.alerts # <<>>
    /\ prev.sent = <<>>
    /\ Cursor(disk, "n1") = 4
    /\ Cursor(disk, "n2") = 0

\* C4: when the previous run completed and this run fetched the same answer
\* for every node, no message reaches detection and no alert is raised or sent.
C4_RerunFindsNothing ==
    (prev.outcome = "completed" /\ pc \in {"detect", "send", "save"}
        /\ fetched = prev.fetched) =>
            /\ all_new_msgs = <<>>
            /\ alerts = <<>>
            /\ sent = <<>>
            /\ pc # "send"

\* the previous run raised alerts from pages this run fetched again
C4_Witness ==
    /\ prev.outcome = "completed"
    /\ pc = "save"
    /\ fetched = prev.fetched
    /\ prev.msgs # <<>>
    /\ prev.alerts # <<>>
    /\ all_new_msgs = <<>>

\* C5: right after detection, the counts are those of the batch with every later
\* message of an already present text removed, and letting the aggregation go
\* on with one more copy of any message of the batch leaves every count
\* unchanged.
C5_DuplicateTextCountsOnce ==
    (JustDetected /\ all_new_msgs # <<>>) =>
        /\ counts = aggregate(DropDuplicates(all_new_msgs, {}), config.patterns,
                              {}, <<>>).counts
        /\ \A i \in 1..Len(all_new_msgs) :
              aggregate(<<all_new_msgs[i]>>, config.patterns,
                        seen_messages, counts).counts = counts

\* two nodes carried a text that is the same after normalization, it matched
\* patterns, and each of its patterns was counted once
C5_Witness ==
    /\ Detected
    /\ config = ConfigPlain
    /\ \E i, j \in 1..Len(all_new_msgs) :
          /\ i < j
          /\ all_new_msgs[i].text = all_new_msgs[j].text
          /\ all_new_msgs[i].node # all_new_msgs[j].node
          /\ all_new_msgs[i].text = syl \o sp \o ry
    /\ CountOf(counts, composite(syl, ry)) = 1

\* C6: right after detection, the count of every pattern is the number of surviving
\* messages that contain the pattern (each such message adds exactly 1), so no
\* count exceeds the number of surviving messages.
C6_CountIsNumberOfPosts ==
    (JustDetected /\ all_new_msgs # <<>>) =>
        LET alive == Surviving(all_new_msgs)
            keys(i) == CrossKeys(all_new_msgs[i].text)
                       \cup StatusKeys(all_new_msgs[i].text)
        IN  /\ \A k \in 1..Len(counts) :
                  counts[k].count =
                      Cardinality({ i \in alive : counts[k].pattern \in keys(i) })
            /\ \A k \in 1..Len(counts) : counts[k].count <= Cardinality(alive)

\* C9: the composite keys a message bumps are exactly the cross product of the
\* incidents and the locations matched in that message (none when either set
\* is empty), and right after detection the keys counted are exactly the keys of the
\* surviving messages, so no key joins terms of two different messages.
C9_CompositeKeysAreCrossProduct ==
    /\ JustDetected => \A i \in 1..Len(all_new_msgs) :
          LET text == all_new_msgs[i].text
              fi == found(config.patterns.incidents, text)
              fl == found(config.patterns.locations, text)
          IN  /\ Range(composite_keys(fl, fi)) = CrossKeys(text)
              /\ (fi = <<>> \/ fl = <<>>) => composite_keys(fl, fi) = <<>>
    /\ (JustDetected /\ all_new_msgs # <<>>) =>
          { counts[k].pattern : k \in 1..Len(counts) }
              = UNION { CrossKeys(all_new_msgs[i].text)
                        \cup StatusKeys(all_new_msgs[i].text) :
                        i \in Surviving(all_new_msgs) }

\* a message matching two incidents and two locations was counted under its
\* four composite keys, next to a message with a location and no incident
C9_Witness ==
    /\ Detected
    /\ \E i \in 1..Len(all_new_msgs) : all_new_msgs[i].text = TxtBoth
    /\ \E i \in 1..Len(all_new_msgs) : all_new_msgs[i].text = TxtSubstring
    /\ \A a \in {jng, syl}, b \in {qm, ry} : CountOf(counts, composite(a, b)) >= 1
    /\ Len(counts) = 4

\* C10: when the previous run was stopped after detection and before the
\* cursor write, a run that finds the same baseline table and fetches the same
\* answers passes the same messages to detection and computes the same counts
\* and the same alerts.
C10_InterruptedRunIsReproduced ==
    (prev.outcome = "terminated" /\ Detected /\ fetched = prev.fetched
        /\ baselines = prev.baselines) =>
            /\ all_new_msgs = prev.msgs
            /\ counts = prev.counts
            /\ alerts = prev.alerts

\* the interrupted run had sent its alerts and the next run sent them again
C10_Witness ==
    /\ prev.outcome = "terminated"
    /\ pc = "save"
    /\ fetched = prev.fetched
    /\ alerts # <<>>
    /\ prev.sent # <<>>
    /\ sent = prev.sent

\* C7: after the analysis, a pattern has an alert iff its count is at least
\* MIN_COUNT and exceeds MULTIPLIER times its rate (the table's, or the default
\* when absent); it then has exactly one alert, carrying that count and rate.
\* So count 3 at rate 0.1 and count 5 at rate 1.0 give none, count 5 at 0.1 one.
C7_AlertIffSpike ==
    pc = "analyzed" =>
        \A p \in SpikePatterns :
            LET c == CountOf(counts, p)
                rate == IF p \in DOMAIN baselines THEN baselines[p] ELSE DEFAULT_RATE
                hits == { k \in 1..Len(alerts) : alerts[k].pattern = p }
            IN  /\ (hits # {}) <=> (c >= MIN_COUNT /\ c * RateScale > rate * MULTIPLIER)
                /\ Cardinality(hits) <= 1
                /\ \A k \in hits : alerts[k].count = c /\ alerts[k].baseline = rate
                /\ (c = 3 /\ rate = DEFAULT_RATE) => hits = {}
                /\ (c = 5 /\ rate = RateScale) => hits = {}
                /\ (c = 5 /\ rate = DEFAULT_RATE) => hits # {}

\* count 5 of a pattern absent from the table alerts, count 3 of a pattern at
\* rate 0.1 does not
C7_Witness ==
    /\ pc = "analyzed"
    /\ counts = << [pattern |-> PatWarQom, count |-> 5], [pattern |-> qTy, count |-> 3] >>
    /\ baselines = (qTy :> DEFAULT_RATE)
    /\ alerts = << [pattern |-> PatWarQom, count |-> 5, baseline |-> DEFAULT_RATE] >>

\* C8: after construction, the baseline table is the remote table when the
\* remote answered 200 with an object holding 'baselines'; otherwise it is the
\* local table when the local file holds one, and the empty table when it does
\* not; and construction never raises.
C8_RemoteThenLocalThenEmpty ==
    runs = 1 =>
        LET remote_ok == /\ remote.kind = "response"
                         /\ remote.status = 200
                         /\ remote.doc.json = "object"
                         /\ remote.doc.has_baselines
            local_ok == /\ localFile.exists
                        /\ localFile.doc.json = "object"
                        /\ localFile.doc.has_baselines
        IN  /\ prev.outcome # "init_raised"
            /\ remote_ok => baselines = remote.doc.table
            /\ (~remote_ok /\ local_ok) => baselines = localFile.doc.table
            /\ (~remote_ok /\ ~local_ok) => baselines = EmptyTable

====
